---- MODULE Spec2Model ----
(***************************************************************************)
(* State-machine model of the tensorpipe CUDA-IPC channel                  *)
(* (tensorpipe/channel/cuda_ipc/channel_impl.cc) and of the transport      *)
(* ListenerImplBoilerplate.                                                *)
(*                                                                         *)
(* Two channel endpoints, 1 and 2, are joined by a reply connection and an *)
(* ack connection.  Every action is one task of the single-threaded event  *)
(* loop: a submission, a close, or the completion of a control-stream      *)
(* read or write.  The operation queue engine (OpsStateMachine) and the    *)
(* channel boilerplate (setError, close, sequence numbers) are not part of *)
(* the sources at hand and follow the written specification.               *)
(***************************************************************************)
EXTENDS Integers, Sequences, FiniteSets, TLC

\* Bounds of the model.
MaxSends == 2
MaxAccepts == 3
MaxWrites == 3

\* The two endpoints of one channel.
Chans == {1, 2}
Peer(c) == 3 - c

\* Number of sends each endpoint may submit: the traffic runs from endpoint 1
\* to endpoint 2, with a single transfer the other way so that both queues of
\* an endpoint hold operations.
sendLimit(c) == IF c = 1 THEN MaxSends ELSE 1

\* SendOperation::State / RecvOperation::State, in declaration order.
UNINITIALIZED == 0
READING_REPLY == 1
READING_ACK == 1
FINISHED == 2

\* Error values.  Error::kSuccess converts to false.
Success == "Success"
ChannelClosed == "ChannelClosedError"
ListenerClosed == "ListenerClosedError"
ConnError == "ConnectionError"

\* The handle a SendOperation holds before a Reply was stored.
EmptyHandle == 0
\* What a descriptor read from an erased record can carry.
GarbageHandle == -1

\* Device memory.  Endpoint c sends from one allocation of AllocSize bytes
\* that holds sequential values; send n submits the Length bytes at
\* sendPtr(n) within it.  A destination starts zeroed, and a copy from a
\* location that a garbage descriptor names leaves garbage.
Length == 2
AllocSize == MaxSends + Length - 1
Allocation(c) == [i \in 1..AllocSize |-> 10 * c + i]
sendPtr(n) == n
payload(c, n) == SubSeq(Allocation(c), sendPtr(n) + 1, sendPtr(n) + Length)
ZeroBytes == [i \in 1..Length |-> 0]
GarbageBytes == [i \in 1..Length |-> -1]
\* The IPC handle of the allocation a send buffer lies in.
BufferHandle == 1
\* The device streams a recv buffer can name.
Streams == {1, 2}

VARIABLES
    chan,           \* chan[c]: the state of endpoint c (see InitChan)
    pendAtClose,    \* pendAtClose[c]: ops unfinished when close() set the error
    error_,         \* listener: the error slot
    nextConnectionBeingAccepted_,
    nextAcceptCallbackToCall_,
    backendQueue,   \* listener backend: wrapped callbacks handed to acceptImplFromLoop
    acceptLog,      \* listener: calls of the accept callbacks fn, made by their wrappers
    handedOver,     \* listener: sequence numbers handed to acceptImplFromLoop
    handleErrorCalls, \* listener: number of handleErrorImpl runs
    dcheckFailed,   \* listener: TP_DCHECK_EQ of the wrapper failed
    written,        \* listener: the errors passed to setError, in order
    acceptedUnder,  \* listener: the error slot as each accept found it
    build           \* listener: how the build compiles TP_DCHECK_EQ

chanVars == <<chan, pendAtClose>>
listenerVars == <<error_, nextConnectionBeingAccepted_, nextAcceptCallbackToCall_,
                  backendQueue, acceptLog, handedOver, handleErrorCalls,
                  dcheckFailed, written, acceptedUnder, build>>
vars == <<chan, pendAtClose, error_, nextConnectionBeingAccepted_,
          nextAcceptCallbackToCall_, backendQueue, acceptLog, handedOver,
          handleErrorCalls, dcheckFailed, written, acceptedUnder, build>>

(***************************************************************************)
(* Operation records and queues                                            *)
(***************************************************************************)

\* SendOperation as constructed by emplaceBack in sendImplFromLoop.
SendOperation(n) ==
    [sequenceNumber |-> n, state |-> UNINITIALIZED, doneReadingReply |-> FALSE,
     stopEvHandle |-> EmptyHandle, callback |-> TRUE]

\* RecvOperation as constructed and filled by recvImplFromLoop.
RecvOperation(n, descriptor, buffer) ==
    [sequenceNumber |-> n, state |-> UNINITIALIZED, doneReadingAck |-> FALSE,
     callback |-> TRUE, startEvHandle |-> descriptor.startEvHandle,
     bufferHandle |-> descriptor.handle, offset |-> descriptor.offset,
     stream |-> buffer.stream, length |-> buffer.length,
     stopEv |-> n + 1]

\* Descriptor built by makeDescriptor from a live SendOperation.
makeDescriptor(n) ==
    [handle |-> BufferHandle, offset |-> sendPtr(n), startEvHandle |-> n + 1]

\* A descriptor built from memory that no longer holds the SendOperation.
GarbageDescriptor ==
    [handle |-> GarbageHandle, offset |-> 0, startEvHandle |-> GarbageHandle]

\* Statement sequencing: evaluate the state a statement leaves, then run the
\* rest of the function on it.
Run(value, Rest(_)) == CHOOSE out \in {Rest(v) : v \in {value}} : TRUE

\* One entry of a per-direction event log.
Event(ev, n, err, h) == [ev |-> ev, seq |-> n, err |-> err, handle |-> h]

\* Position of the op with sequence number n in queue ops, 0 when absent.
findOperation(ops, n) ==
    IF ops = <<>> THEN 0
    ELSE LET offset == n - ops[1].sequenceNumber
         IN IF offset < 0 \/ offset >= Len(ops) THEN 0 ELSE offset + 1

\* Remove the FINISHED ops at the head of a queue.
RECURSIVE popFinished(_)
popFinished(ops) ==
    IF ops # <<>> /\ ops[1].state = FINISHED THEN popFinished(Tail(ops)) ELSE ops

InitChan(id) ==
    [id |-> id,
     error_ |-> Success,
     sendOps |-> <<>>, recvOps |-> <<>>,
     nextSend |-> 0, nextRecv |-> 0,
     sendLog |-> <<>>, recvLog |-> <<>>,
     replyReads |-> <<>>, ackReads |-> <<>>,   \* reads issued, not completed
     replyOut |-> <<>>, ackOut |-> 0,          \* messages written, not yet read by the peer
     failedWrites |-> 0,                       \* writes issued on a broken connection
     descOut |-> <<>>,                         \* descriptors handed out, not yet consumed
     down |-> FALSE,                           \* the connections are closed or broken
     enrolled |-> FALSE,
     initialized |-> FALSE,
     handleErrorCalls |-> 0,
     recvAfterPeerClose |-> {},                \* recvs submitted after the peer closed
     leftByHandleError |-> {},                 \* ops unfinished when handleErrorImpl's advance-alls returned
     readsAtError |-> [reply |-> {}, ack |-> {}], \* reads outstanding at that time
     stream |-> <<>>,                          \* copies enqueued on the device streams, not yet run
     deviceAhead |-> FALSE,                    \* the device runs work as soon as the current task enqueues it
     dst |-> <<>>,                             \* dst[n + 1]: destination buffer of recv n
     dstAtCallback |-> <<>>]                   \* dst[n + 1] as the callback of recv n found it

(***************************************************************************)
(* Send path: actions of the transition table                              *)
(***************************************************************************)

sendOp(cs, n) == cs.sendOps[findOperation(cs.sendOps, n)]
recvOp(cs, n) == cs.recvOps[findOperation(cs.recvOps, n)]

\* readReply putting its read ahead of the reads already issued.
readReplyAhead(cs, n) ==
    [cs EXCEPT !.replyReads = <<n>> \o @,
               !.sendLog = Append(@, Event("readReply", n, cs.error_, EmptyHandle))]

readReply(cs, n) ==
    [cs EXCEPT !.replyReads = Append(@, n),
               !.sendLog = Append(@, Event("readReply", n, cs.error_, EmptyHandle))]

waitOnStopEvent(cs, n) ==
    [cs EXCEPT !.sendLog =
        Append(@, Event("waitOnStopEvent", n, cs.error_, sendOp(cs, n).stopEvHandle))]

\* callSendCallback passing success instead of the channel's error.
callSendCallbackSuccess(cs, n) ==
    [cs EXCEPT !.sendLog = Append(@, Event("callback", n, Success, EmptyHandle)),
               !.sendOps[findOperation(cs.sendOps, n)].callback = FALSE]

callSendCallback(cs, n) ==
    [cs EXCEPT !.sendLog = Append(@, Event("callback", n, cs.error_, EmptyHandle)),
               !.sendOps[findOperation(cs.sendOps, n)].callback = FALSE]

writeAck(cs, n) ==
    [cs EXCEPT !.sendLog = Append(@, Event("writeAck", n, cs.error_, EmptyHandle)),
               !.ackOut = IF cs.down THEN @ ELSE @ + 1,
               !.failedWrites = IF cs.down THEN @ + 1 ELSE @]

\* The actions of the last send transition with writeAck first.
writeAckAndWaitAndCallback(cs, n) ==
    Run(writeAck(cs, n), LAMBDA acked :
    Run(waitOnStopEvent(acked, n), LAMBDA waited :
    callSendCallback(waited, n)))

waitAndCallbackAndWriteAck(cs, n) ==
    Run(waitOnStopEvent(cs, n), LAMBDA waited :
    Run(callSendCallback(waited, n), LAMBDA called :
    writeAck(called, n)))

\* OpsStateMachine::attemptTransition on the send queue; actions is the state
\* the actions of the transition leave when run on cs.
attemptSendTransition(cs, n, from, to, cond, actions) ==
    IF sendOp(cs, n).state = from /\ cond
    THEN Run(actions, LAMBDA after :
             [after EXCEPT
                !.sendOps[findOperation(cs.sendOps, n)].state = to,
                !.sendLog = IF to = FINISHED
                            THEN Append(@, Event("finished", n, cs.error_, EmptyHandle))
                            ELSE @])
    ELSE cs

\* advanceSendOperation writing an Ack when it finishes an op under error.
advanceSendOperationAckOnError(cs, n, prevOpState) ==
    Run(attemptSendTransition(cs, n, UNINITIALIZED, FINISHED,
            cs.error_ # Success, callSendCallback(cs, n)), LAMBDA t1 :
    Run(attemptSendTransition(t1, n, UNINITIALIZED, READING_REPLY,
            t1.error_ = Success /\ prevOpState >= READING_REPLY, readReply(t1, n)),
        LAMBDA t2 :
    Run(attemptSendTransition(t2, n, READING_REPLY, FINISHED,
            t2.error_ # Success /\ sendOp(t2, n).doneReadingReply,
            writeAck(callSendCallback(t2, n), n)), LAMBDA t3 :
    attemptSendTransition(t3, n, READING_REPLY, FINISHED,
            t3.error_ = Success /\ sendOp(t3, n).doneReadingReply
                /\ prevOpState >= FINISHED,
            waitAndCallbackAndWriteAck(t3, n)))))

\* advanceSendOperation finishing an op in READING_REPLY under error without
\* waiting for its reply read.
advanceSendOperationErrorCollapses(cs, n, prevOpState) ==
    Run(attemptSendTransition(cs, n, UNINITIALIZED, FINISHED,
            cs.error_ # Success, callSendCallback(cs, n)), LAMBDA t1 :
    Run(attemptSendTransition(t1, n, UNINITIALIZED, READING_REPLY,
            t1.error_ = Success /\ prevOpState >= READING_REPLY, readReply(t1, n)),
        LAMBDA t2 :
    Run(attemptSendTransition(t2, n, READING_REPLY, FINISHED,
            t2.error_ # Success, callSendCallback(t2, n)), LAMBDA t3 :
    attemptSendTransition(t3, n, READING_REPLY, FINISHED,
            t3.error_ = Success /\ sendOp(t3, n).doneReadingReply
                /\ prevOpState >= FINISHED,
            waitAndCallbackAndWriteAck(t3, n)))))

\* advanceSendOperation without the UNINITIALIZED -> FINISHED transition.
advanceSendOperationNoErrorExit(cs, n, prevOpState) ==
    Run(attemptSendTransition(cs, n, UNINITIALIZED, READING_REPLY,
            cs.error_ = Success /\ prevOpState >= READING_REPLY, readReply(cs, n)),
        LAMBDA t2 :
    Run(attemptSendTransition(t2, n, READING_REPLY, FINISHED,
            t2.error_ # Success /\ sendOp(t2, n).doneReadingReply,
            callSendCallback(t2, n)), LAMBDA t3 :
    attemptSendTransition(t3, n, READING_REPLY, FINISHED,
            t3.error_ = Success /\ sendOp(t3, n).doneReadingReply
                /\ prevOpState >= FINISHED,
            waitAndCallbackAndWriteAck(t3, n))))

advanceSendOperation(cs, n, prevOpState) ==
    Run(attemptSendTransition(cs, n, UNINITIALIZED, FINISHED,
            cs.error_ # Success, callSendCallback(cs, n)), LAMBDA t1 :
    Run(attemptSendTransition(t1, n, UNINITIALIZED, READING_REPLY,
            t1.error_ = Success /\ prevOpState >= READING_REPLY, readReply(t1, n)),
        LAMBDA t2 :
    Run(attemptSendTransition(t2, n, READING_REPLY, FINISHED,
            t2.error_ # Success /\ sendOp(t2, n).doneReadingReply,
            callSendCallback(t2, n)), LAMBDA t3 :
    attemptSendTransition(t3, n, READING_REPLY, FINISHED,
            t3.error_ = Success /\ sendOp(t3, n).doneReadingReply
                /\ prevOpState >= FINISHED,
            waitAndCallbackAndWriteAck(t3, n)))))

(***************************************************************************)
(* Receive path: actions of the transition table                           *)
(***************************************************************************)

\* What the device reads at remoteBasePtr + offset: the peer's allocation is
\* behind the handle of a descriptor built from a live record.
sourceBytes(sender, copy) ==
    IF copy.bufferHandle = BufferHandle
    THEN SubSeq(Allocation(sender), copy.offset + 1, copy.offset + copy.length)
    ELSE GarbageBytes

\* Positions of the work enqueued on device stream s.
onStream(cs, s) == {i \in DOMAIN cs.stream : cs.stream[i].stream = s}

removeAt(seq, i) == SubSeq(seq, 1, i - 1) \o SubSeq(seq, i + 1, Len(seq))

\* The device runs the oldest copy enqueued on stream s.
streamRuns(cs, s) ==
    LET i == CHOOSE j \in onStream(cs, s) : \A k \in onStream(cs, s) : j <= k
        copy == cs.stream[i]
    IN [cs EXCEPT !.stream = removeAt(@, i),
                  !.dst[copy.seq + 1] = sourceBytes(copy.sender, copy)]

RECURSIVE streamDrains(_, _)
streamDrains(cs, s) ==
    IF onStream(cs, s) = {} THEN cs ELSE streamDrains(streamRuns(cs, s), s)

\* The wait on the start event and the copy are enqueued on op.stream
\* (cudaMemcpyAsync).  The device runs them on its own: before the function
\* returns, or at any later time.
waitOnStartEventAndCopyAndRecordStopEvent(cs, n) ==
    LET op == recvOp(cs, n)
        enqueued ==
            [cs EXCEPT !.recvLog =
                           Append(@, Event("copy", n, cs.error_, op.startEvHandle)),
                       !.stream = Append(@, [seq |-> n,
                                             sender |-> Peer(cs.id),
                                             stream |-> op.stream,
                                             startEvHandle |-> op.startEvHandle,
                                             bufferHandle |-> op.bufferHandle,
                                             offset |-> op.offset,
                                             length |-> op.length])]
    IN IF cs.deviceAhead THEN streamDrains(enqueued, op.stream) ELSE enqueued

\* callRecvCallback without the reset of op.callback.
callRecvCallbackKeepsReference(cs, n) ==
    [cs EXCEPT !.recvLog = Append(@, Event("callback", n, cs.error_, EmptyHandle)),
               !.dstAtCallback[n + 1] = cs.dst[n + 1]]

callRecvCallback(cs, n) ==
    [cs EXCEPT !.recvLog = Append(@, Event("callback", n, cs.error_, EmptyHandle)),
               !.dstAtCallback[n + 1] = cs.dst[n + 1],
               !.recvOps[findOperation(cs.recvOps, n)].callback = FALSE]

writeReplyAndReadAck(cs, n) ==
    [cs EXCEPT !.recvLog = Append(Append(@,
                    Event("writeReply", n, cs.error_, recvOp(cs, n).stopEv)),
                    Event("readAck", n, cs.error_, EmptyHandle)),
               !.replyOut = IF cs.down THEN @ ELSE Append(@, recvOp(cs, n).stopEv),
               !.failedWrites = IF cs.down THEN @ + 1 ELSE @,
               !.ackReads = Append(@, n)]

copyAndCallbackAndWriteReply(cs, n) ==
    Run(waitOnStartEventAndCopyAndRecordStopEvent(cs, n), LAMBDA copied :
    Run(callRecvCallback(copied, n), LAMBDA called :
    writeReplyAndReadAck(called, n)))

noActions(cs, n) == cs

\* OpsStateMachine::attemptTransition on the receive queue; actions is the state
\* the actions of the transition leave when run on cs.
attemptRecvTransition(cs, n, from, to, cond, actions) ==
    IF recvOp(cs, n).state = from /\ cond
    THEN Run(actions, LAMBDA after :
             [after EXCEPT
                !.recvOps[findOperation(cs.recvOps, n)].state = to,
                !.recvLog = IF to = FINISHED
                            THEN Append(@, Event("finished", n, cs.error_, EmptyHandle))
                            ELSE @])
    ELSE cs

\* advanceRecvOperation calling the callback again on READING_ACK -> FINISHED.
advanceRecvOperationCallbackTwice(cs, n, prevOpState) ==
    Run(attemptRecvTransition(cs, n, UNINITIALIZED, FINISHED,
            cs.error_ # Success, callRecvCallback(cs, n)), LAMBDA t1 :
    Run(attemptRecvTransition(t1, n, UNINITIALIZED, READING_ACK,
            t1.error_ = Success /\ prevOpState >= READING_ACK,
            copyAndCallbackAndWriteReply(t1, n)), LAMBDA t2 :
    attemptRecvTransition(t2, n, READING_ACK, FINISHED,
            recvOp(t2, n).doneReadingAck, callRecvCallback(t2, n))))

\* advanceRecvOperation issuing the Reply write and the Ack read again on
\* READING_ACK -> FINISHED.
advanceRecvOperationReissue(cs, n, prevOpState) ==
    Run(attemptRecvTransition(cs, n, UNINITIALIZED, FINISHED,
            cs.error_ # Success, callRecvCallback(cs, n)), LAMBDA t1 :
    Run(attemptRecvTransition(t1, n, UNINITIALIZED, READING_ACK,
            t1.error_ = Success /\ prevOpState >= READING_ACK,
            copyAndCallbackAndWriteReply(t1, n)), LAMBDA t2 :
    attemptRecvTransition(t2, n, READING_ACK, FINISHED,
            recvOp(t2, n).doneReadingAck, writeReplyAndReadAck(t2, n))))

\* advanceRecvOperation without the UNINITIALIZED -> FINISHED transition.
advanceRecvOperationNoErrorExit(cs, n, prevOpState) ==
    Run(attemptRecvTransition(cs, n, UNINITIALIZED, READING_ACK,
            cs.error_ = Success /\ prevOpState >= READING_ACK,
            copyAndCallbackAndWriteReply(cs, n)), LAMBDA t2 :
    attemptRecvTransition(t2, n, READING_ACK, FINISHED,
            recvOp(t2, n).doneReadingAck, noActions(t2, n)))

advanceRecvOperation(cs, n, prevOpState) ==
    Run(attemptRecvTransition(cs, n, UNINITIALIZED, FINISHED,
            cs.error_ # Success, callRecvCallback(cs, n)), LAMBDA t1 :
    Run(attemptRecvTransition(t1, n, UNINITIALIZED, READING_ACK,
            t1.error_ = Success /\ prevOpState >= READING_ACK,
            copyAndCallbackAndWriteReply(t1, n)), LAMBDA t2 :
    attemptRecvTransition(t2, n, READING_ACK, FINISHED,
            recvOp(t2, n).doneReadingAck, noActions(t2, n))))

(***************************************************************************)
(* The queue engine: advance, advance-all                                  *)
(***************************************************************************)

\* State of the op before n, FINISHED when n is the head of the queue.
prevState(ops, n) ==
    IF findOperation(ops, n - 1) = 0 THEN FINISHED
    ELSE ops[findOperation(ops, n - 1)].state

\* Run the send transition table on op n, then drop finished ops from the head.
advanceOneSend(cs, n) ==
    Run(advanceSendOperation(cs, n, prevState(cs.sendOps, n)), LAMBDA ran :
        [cs |-> [ran EXCEPT !.sendOps = popFinished(@)],
         advanced |-> sendOp(ran, n).state # sendOp(cs, n).state])

advanceOneRecv(cs, n) ==
    Run(advanceRecvOperation(cs, n, prevState(cs.recvOps, n)), LAMBDA ran :
        [cs |-> [ran EXCEPT !.recvOps = popFinished(@)],
         advanced |-> recvOp(ran, n).state # recvOp(cs, n).state])

\* advance(it): run the table on the op; if it transitioned and has a
\* predecessor, advance the predecessor; repeat.
RECURSIVE advanceSend(_, _)
advanceSend(cs, n) ==
    IF findOperation(cs.sendOps, n) = 0 THEN cs
    ELSE Run(advanceOneSend(cs, n), LAMBDA r :
             IF r.advanced /\ findOperation(r.cs.sendOps, n - 1) # 0
             THEN advanceSend(r.cs, n - 1)
             ELSE r.cs)

RECURSIVE advanceRecv(_, _)
advanceRecv(cs, n) ==
    IF findOperation(cs.recvOps, n) = 0 THEN cs
    ELSE Run(advanceOneRecv(cs, n), LAMBDA r :
             IF r.advanced /\ findOperation(r.cs.recvOps, n - 1) # 0
             THEN advanceRecv(r.cs, n - 1)
             ELSE r.cs)

\* advance-all: advance every op from head to tail.
RECURSIVE advanceSendFrom(_, _)
advanceSendFrom(cs, n) ==
    IF findOperation(cs.sendOps, n) = 0 THEN cs
    ELSE Run(advanceOneSend(cs, n), LAMBDA r : advanceSendFrom(r.cs, n + 1))

RECURSIVE advanceRecvFrom(_, _)
advanceRecvFrom(cs, n) ==
    IF findOperation(cs.recvOps, n) = 0 THEN cs
    ELSE Run(advanceOneRecv(cs, n), LAMBDA r : advanceRecvFrom(r.cs, n + 1))

advanceAllSend(cs) ==
    IF cs.sendOps = <<>> THEN cs
    ELSE advanceSendFrom(cs, cs.sendOps[1].sequenceNumber)

advanceAllRecv(cs) ==
    IF cs.recvOps = <<>> THEN cs
    ELSE advanceRecvFrom(cs, cs.recvOps[1].sequenceNumber)

(***************************************************************************)
(* Errors of the channel                                                   *)
(***************************************************************************)

\* Ops of endpoint cs that are in a queue and not FINISHED.
unfinished(cs) ==
    {<<"send", cs.sendOps[i].sequenceNumber, cs.sendOps[i].state>> :
        i \in {j \in 1..Len(cs.sendOps) : cs.sendOps[j].state # FINISHED}}
    \cup
    {<<"recv", cs.recvOps[i].sequenceNumber, cs.recvOps[i].state>> :
        i \in {j \in 1..Len(cs.recvOps) : cs.recvOps[j].state # FINISHED}}

\* The sequence numbers held by a queue of outstanding reads.
outstanding(reads) == {reads[i] : i \in DOMAIN reads}

handleErrorImpl(cs) ==
    Run(advanceAllSend(cs), LAMBDA sent :
    Run(advanceAllRecv(sent), LAMBDA drained :
        [drained EXCEPT !.down = TRUE, !.enrolled = FALSE,
                        !.handleErrorCalls = @ + 1,
                        !.leftByHandleError = unfinished(drained),
                        !.readsAtError = [reply |-> outstanding(drained.replyReads),
                                          ack |-> outstanding(drained.ackReads)]]))

\* The channel's setError: the first non-success error wins.
setError(cs, error) ==
    IF cs.error_ # Success \/ error = Success THEN cs
    ELSE Run([cs EXCEPT !.error_ = error], handleErrorImpl)

(***************************************************************************)
(* Loop tasks of the channel                                               *)
(***************************************************************************)

initImplFromLoop(cs) == [cs EXCEPT !.enrolled = TRUE]

\* init() on the loop: the task the factory defers when it creates the
\* channel, ahead of every send, recv and close of that channel.
InitFromLoop(c) ==
    /\ ~chan[c].initialized
    /\ chan' = [chan EXCEPT
                  ![c] = [initImplFromLoop(chan[c]) EXCEPT !.initialized = TRUE]]
    /\ UNCHANGED <<pendAtClose>>
    /\ UNCHANGED listenerVars

\* What closing or breaking the connections of endpoint c does to the peer.
peerSees(ps, cs) == IF cs.down THEN [ps EXCEPT !.down = TRUE] ELSE ps

\* Values the descriptor can carry: the record's own when it is still in the
\* queue, anything when the record was erased by the advance before it.
descriptorsFor(cs, n) ==
    IF findOperation(cs.sendOps, n) # 0 THEN {makeDescriptor(n)}
    ELSE {makeDescriptor(n), GarbageDescriptor}

\* What makeDescriptor finds behind opIter: the record in the queue and
\* unfinished, in the queue and FINISHED, or erased from the queue.
descriptorEvent(cs, n) ==
    IF findOperation(cs.sendOps, n) = 0 THEN "descriptorFromErased"
    ELSE IF sendOp(cs, n).state = FINISHED THEN "descriptorFromFinished"
    ELSE "descriptor"

\* The states sendImplFromLoop can leave: enqueue, advance, then build the
\* descriptor from the record and hand it to the descriptor callback.
sendImplFromLoop(cs, n) ==
    Run([cs EXCEPT !.sendOps = Append(@, SendOperation(n))], LAMBDA queued :
    Run(advanceSend(queued, n), LAMBDA advanced :
        {[advanced EXCEPT
            !.sendLog = Append(@, Event(descriptorEvent(advanced, n),
                                        n, Success, descriptor.startEvHandle)),
            !.descOut = Append(@, descriptor)]
         : descriptor \in descriptorsFor(advanced, n)}))

\* send() on the loop: the boilerplate numbers the request and calls
\* sendImplFromLoop.
Send(c) ==
    /\ chan[c].initialized
    /\ chan[c].nextSend < sendLimit(c)
    /\ LET n == chan[c].nextSend
           numbered == [chan[c] EXCEPT
                           !.nextSend = n + 1,
                           !.sendLog = Append(@, Event("submitted", n,
                                                 chan[c].error_, EmptyHandle))]
       IN \E sent \in Run(numbered, LAMBDA cs : sendImplFromLoop(cs, n)) :
            chan' = [chan EXCEPT ![c] = sent]
    /\ UNCHANGED <<pendAtClose>>
    /\ UNCHANGED listenerVars

recvImplFromLoop(cs, n, descriptor, buffer) ==
    Run([cs EXCEPT !.recvOps = Append(@, RecvOperation(n, descriptor, buffer))],
        LAMBDA queued : advanceRecv(queued, n))

\* recv() on the loop, with a destination buffer of Length zeroed bytes on
\* the given stream: the boilerplate numbers the request and calls
\* recvImplFromLoop.  deviceAhead tells whether the device runs the work of
\* this task as soon as it is enqueued.
RecvOn(c, stream, deviceAhead) ==
    /\ chan[c].initialized
    /\ chan[Peer(c)].descOut # <<>>
    /\ LET n == chan[c].nextRecv
           descriptor == Head(chan[Peer(c)].descOut)
           numbered == [chan[c] EXCEPT
                           !.nextRecv = n + 1,
                           !.recvLog = Append(@, Event("submitted", n,
                                                 chan[c].error_,
                                                 descriptor.startEvHandle)),
                           !.recvAfterPeerClose =
                               IF chan[Peer(c)].error_ = ChannelClosed
                               THEN @ \cup {n} ELSE @,
                           !.dst = Append(@, ZeroBytes),
                           !.dstAtCallback = Append(@, <<>>),
                           !.deviceAhead = deviceAhead]
           buffer == [stream |-> stream, length |-> Length]
       IN chan' = [chan EXCEPT
                     ![c] = Run(Run(numbered, LAMBDA cs :
                                    recvImplFromLoop(cs, n, descriptor, buffer)),
                                LAMBDA received :
                                    [received EXCEPT !.deviceAhead = FALSE]),
                     ![Peer(c)].descOut = Tail(@)]
    /\ UNCHANGED <<pendAtClose>>
    /\ UNCHANGED listenerVars

\* A recv whose copy stays enqueued on the first stream while the task runs.
Recv(c) == RecvOn(c, 1, FALSE)

\* A recv on any stream, with a device that may or may not run ahead.
RecvOnDevice(c) ==
    \E stream \in Streams, deviceAhead \in BOOLEAN : RecvOn(c, stream, deviceAhead)

closeFromLoop(cs) == Run(cs, LAMBDA closing : setError(closing, ChannelClosed))

Close(c) ==
    /\ chan[c].initialized
    /\ chan' = Run(closeFromLoop(chan[c]), LAMBDA closed :
                   [chan EXCEPT ![c] = closed, ![Peer(c)] = peerSees(@, closed)])
    /\ pendAtClose' = IF chan[c].error_ = Success
                      THEN [pendAtClose EXCEPT ![c] = unfinished(chan[c])]
                      ELSE pendAtClose
    /\ UNCHANGED listenerVars

\* The reply-read callback setting doneReadingReply only when there is no error.
replyReadCallbackFlagOnSuccess(cs, n, reply) ==
    LET i == findOperation(cs.sendOps, n)
    IN Run(IF cs.error_ = Success
           THEN [cs EXCEPT !.sendOps[i].doneReadingReply = TRUE,
                           !.sendOps[i].stopEvHandle = reply]
           ELSE cs, LAMBDA stored :
       advanceSend(stored, n))

\* The reply-read callback without the call of advanceOperation.
replyReadCallbackNoAdvance(cs, n, reply) ==
    LET i == findOperation(cs.sendOps, n)
    IN Run([cs EXCEPT !.sendOps[i].doneReadingReply = TRUE,
                      !.sendLog = Append(@, Event("replyRead", n, cs.error_, reply))],
           LAMBDA flagged :
           IF flagged.error_ = Success
           THEN [flagged EXCEPT !.sendOps[i].stopEvHandle = reply]
           ELSE flagged)

\* The reply-read callback setting doneReadingReply and never storing the
\* stop-event handle.
replyReadCallbackNoStore(cs, n, reply) ==
    LET i == findOperation(cs.sendOps, n)
    IN Run([cs EXCEPT !.sendOps[i].doneReadingReply = TRUE,
                      !.sendLog = Append(@, Event("replyRead", n, cs.error_, reply))],
           LAMBDA flagged : advanceSend(flagged, n))

\* Completion of the read issued by readReply, with a Reply.
replyReadCallback(cs, n, reply) ==
    LET i == findOperation(cs.sendOps, n)
    IN Run([cs EXCEPT !.sendOps[i].doneReadingReply = TRUE,
                      !.sendLog = Append(@, Event("replyRead", n, cs.error_, reply))],
           LAMBDA flagged :
       Run(IF flagged.error_ = Success
           THEN [flagged EXCEPT !.sendOps[i].stopEvHandle = reply]
           ELSE flagged, LAMBDA stored :
       advanceSend(stored, n)))

\* A Reply the peer wrote before its end went away is still delivered; the
\* read completes with it as long as this endpoint has not closed its own end.
ReplyReadDone(c) ==
    /\ chan[c].error_ = Success
    /\ chan[c].replyReads # <<>>
    /\ chan[Peer(c)].replyOut # <<>>
    /\ LET n == Head(chan[c].replyReads)
           reply == Head(chan[Peer(c)].replyOut)
           taken == [chan[c] EXCEPT !.replyReads = Tail(@)]
       IN chan' = [chan EXCEPT
                     ![c] = Run(taken, LAMBDA cs : replyReadCallback(cs, n, reply)),
                     ![Peer(c)].replyOut = Tail(@)]
    /\ UNCHANGED <<pendAtClose>>
    /\ UNCHANGED listenerVars

\* Completion of the read issued by readReply, with an error: the callback
\* wrapper sets the error, then runs the callback.
ReplyReadFail(c) ==
    /\ chan[c].down
    /\ chan[c].replyReads # <<>>
    /\ LET n == Head(chan[c].replyReads)
       IN chan' = Run(setError(chan[c], ConnError), LAMBDA failed :
                  Run([failed EXCEPT !.replyReads = Tail(@)], LAMBDA taken :
                  Run(replyReadCallback(taken, n, EmptyHandle), LAMBDA done :
                      [chan EXCEPT ![c] = done, ![Peer(c)] = peerSees(@, done)])))
    /\ UNCHANGED <<pendAtClose>>
    /\ UNCHANGED listenerVars

\* The ack-read callback setting doneReadingAck without advancing the op.
ackReadCallbackNoAdvance(cs, n) ==
    [cs EXCEPT !.recvOps[findOperation(cs.recvOps, n)].doneReadingAck = TRUE]

\* Completion of the read issued by writeReplyAndReadAck.
ackReadCallback(cs, n) ==
    Run([cs EXCEPT !.recvOps[findOperation(cs.recvOps, n)].doneReadingAck = TRUE],
        LAMBDA flagged : advanceRecv(flagged, n))

AckReadDone(c) ==
    /\ chan[c].error_ = Success
    /\ chan[c].ackReads # <<>>
    /\ chan[Peer(c)].ackOut > 0
    /\ LET n == Head(chan[c].ackReads)
           taken == [chan[c] EXCEPT !.ackReads = Tail(@)]
       IN chan' = [chan EXCEPT
                     ![c] = Run(taken, LAMBDA cs : ackReadCallback(cs, n)),
                     ![Peer(c)].ackOut = @ - 1]
    /\ UNCHANGED <<pendAtClose>>
    /\ UNCHANGED listenerVars

AckReadFail(c) ==
    /\ chan[c].down
    /\ chan[c].ackReads # <<>>
    /\ LET n == Head(chan[c].ackReads)
       IN chan' = Run(setError(chan[c], ConnError), LAMBDA failed :
                  Run([failed EXCEPT !.ackReads = Tail(@)], LAMBDA taken :
                  Run(ackReadCallback(taken, n), LAMBDA done :
                      [chan EXCEPT ![c] = done, ![Peer(c)] = peerSees(@, done)])))
    /\ UNCHANGED <<pendAtClose>>
    /\ UNCHANGED listenerVars

\* Completion, with an error, of a write issued by writeAck or
\* writeReplyAndReadAck: the callback wrapper sets the error.
WriteFail(c) ==
    /\ chan[c].failedWrites > 0
    /\ chan' = Run([chan[c] EXCEPT !.failedWrites = @ - 1], LAMBDA cs :
               Run(setError(cs, ConnError), LAMBDA done :
                   [chan EXCEPT ![c] = done, ![Peer(c)] = peerSees(@, done)]))
    /\ UNCHANGED <<pendAtClose>>
    /\ UNCHANGED listenerVars

\* The transport breaks both connections.
ConnectionBreaks ==
    /\ \E c \in Chans : ~chan[c].down
    /\ chan' = [c \in Chans |-> [chan[c] EXCEPT !.down = TRUE]]
    /\ UNCHANGED <<pendAtClose>>
    /\ UNCHANGED listenerVars

\* The device runs the oldest copy enqueued on one stream of endpoint c.
StreamRuns(c) ==
    /\ \E s \in Streams :
          /\ onStream(chan[c], s) # {}
          /\ chan' = [chan EXCEPT ![c] = streamRuns(chan[c], s)]
    /\ UNCHANGED <<pendAtClose>>
    /\ UNCHANGED listenerVars

(***************************************************************************)
(* Listener boilerplate                                                    *)
(***************************************************************************)

\* Errors a listener backend can pass to setError.
BackendErrors == {Success, ConnError}

\* The callback side of the listener: the counter of the wrapper, the log
\* of the calls of fn and the outcome of the wrapper's TP_DCHECK_EQ.
callbackState ==
    [next |-> nextAcceptCallbackToCall_, log |-> acceptLog, failed |-> dcheckFailed]

\* TP_DCHECK_EQ is a macro of a header that is not among the sources.  A
\* checking build evaluates its arguments and throws when they differ; a
\* build with NDEBUG does not evaluate them.
CheckingBuild == "checking"
NDebugBuild == "NDEBUG"
Builds == {CheckingBuild, NDebugBuild}

\* The wrapper acceptFromLoop puts around the user callback:
\*     TP_DCHECK_EQ(sequenceNumber, nextAcceptCallbackToCall_++);
\*     fn(error, std::move(connection));
\* In a checking build the counter is incremented and a mismatch throws
\* before fn is called; with NDEBUG the counter is left alone and fn is
\* always called.
wrappedCallback(lc, sequenceNumber, error, connection, caller) ==
    LET called == Append(lc.log, [seq |-> sequenceNumber, error |-> error,
                                  connection |-> connection, by |-> caller])
    IN IF build = NDebugBuild
       THEN [next |-> lc.next, log |-> called, failed |-> lc.failed]
       ELSE IF sequenceNumber = lc.next
       THEN [next |-> lc.next + 1, log |-> called, failed |-> lc.failed]
       ELSE [next |-> lc.next + 1, log |-> lc.log, failed |-> TRUE]

\* The backend fails the first k accepts it holds, in the order it got them.
RECURSIVE failAccepts(_, _, _, _)
failAccepts(lc, queue, k, error) ==
    IF k = 0 THEN lc
    ELSE failAccepts(wrappedCallback(lc, Head(queue), error, FALSE, "backend"),
                     Tail(queue), k - 1, error)

RECURSIVE dropFirst(_, _)
dropFirst(queue, k) == IF k = 0 THEN queue ELSE dropFirst(Tail(queue), k - 1)

\* The backend's handleErrorImpl: it fails k of the accepts it holds before
\* it returns; the others are failed by later loop tasks.
listenerHandleErrorImpl(error, k) ==
    LET lc == failAccepts(callbackState, backendQueue, k, error)
    IN /\ nextAcceptCallbackToCall_' = lc.next
       /\ acceptLog' = lc.log
       /\ dcheckFailed' = lc.failed
       /\ backendQueue' = dropFirst(backendQueue, k)
       /\ handleErrorCalls' = handleErrorCalls + 1

\* setError overwriting an error that is already set.
listenerSetErrorOverwrite(error) ==
    IF error = Success
    THEN UNCHANGED <<error_, nextAcceptCallbackToCall_, acceptLog,
                     dcheckFailed, backendQueue, handleErrorCalls>>
    ELSE /\ error_' = error
         /\ \E k \in 0..Len(backendQueue) : listenerHandleErrorImpl(error, k)

listenerSetError(error) ==
    IF error_ # Success \/ error = Success
    THEN UNCHANGED <<error_, nextAcceptCallbackToCall_, acceptLog,
                     dcheckFailed, backendQueue, handleErrorCalls>>
    ELSE /\ error_' = error
         /\ \E k \in 0..Len(backendQueue) : listenerHandleErrorImpl(error, k)

\* closeFromLoop handling the error on every call.
listenerCloseAlwaysHandles ==
    /\ error_' = IF error_ = Success THEN ListenerClosed ELSE error_
    /\ \E k \in 0..Len(backendQueue) : listenerHandleErrorImpl(error_', k)

listenerCloseFromLoop == listenerSetError(ListenerClosed)

ListenerClose ==
    /\ Len(written) < MaxWrites
    /\ listenerCloseFromLoop
    /\ written' = Append(written, ListenerClosed)
    /\ UNCHANGED <<nextConnectionBeingAccepted_, handedOver, acceptedUnder,
                   build>>
    /\ UNCHANGED chanVars

\* The backend reports the outcome of one of its own operations.
BackendSetError ==
    /\ Len(written) < MaxWrites
    /\ \E error \in BackendErrors :
          /\ listenerSetError(error)
          /\ written' = Append(written, error)
    /\ UNCHANGED <<nextConnectionBeingAccepted_, handedOver, acceptedUnder,
                   build>>
    /\ UNCHANGED chanVars

acceptFromLoop ==
    LET sequenceNumber == nextConnectionBeingAccepted_
    IN /\ nextConnectionBeingAccepted_' = nextConnectionBeingAccepted_ + 1
       /\ IF error_ # Success
          THEN LET lc == wrappedCallback(callbackState, sequenceNumber, error_,
                                         FALSE, "boilerplate")
               IN /\ nextAcceptCallbackToCall_' = lc.next
                  /\ acceptLog' = lc.log
                  /\ dcheckFailed' = lc.failed
                  /\ UNCHANGED <<backendQueue, handedOver>>
          ELSE /\ backendQueue' = Append(backendQueue, sequenceNumber)
               /\ handedOver' = handedOver \cup {sequenceNumber}
               /\ UNCHANGED <<nextAcceptCallbackToCall_, acceptLog, dcheckFailed>>

Accept ==
    /\ nextConnectionBeingAccepted_ < MaxAccepts
    /\ acceptFromLoop
    /\ acceptedUnder' = Append(acceptedUnder, error_)
    /\ UNCHANGED <<error_, written, handleErrorCalls, build>>
    /\ UNCHANGED chanVars

\* The backend completes the oldest accept it holds: with a connection
\* while the listener has no error, with the listener's error afterwards.
BackendCompletes ==
    /\ backendQueue # <<>>
    /\ LET lc == wrappedCallback(callbackState, Head(backendQueue), error_,
                                 error_ = Success, "backend")
       IN /\ nextAcceptCallbackToCall_' = lc.next
          /\ acceptLog' = lc.log
          /\ dcheckFailed' = lc.failed
    /\ backendQueue' = Tail(backendQueue)
    /\ UNCHANGED <<error_, written, handleErrorCalls,
                   nextConnectionBeingAccepted_, handedOver, acceptedUnder,
                   build>>
    /\ UNCHANGED chanVars

(***************************************************************************)
(* Specifications                                                          *)
(***************************************************************************)

InitListener ==
    /\ error_ = Success
    /\ nextConnectionBeingAccepted_ = 0
    /\ nextAcceptCallbackToCall_ = 0
    /\ backendQueue = <<>>
    /\ acceptLog = <<>>
    /\ handedOver = {}
    /\ handleErrorCalls = 0
    /\ dcheckFailed = FALSE
    /\ written = <<>>
    /\ acceptedUnder = <<>>

\* The channel has no TP_DCHECK whose argument has an effect: its runs are
\* the same in every build.
Init ==
    /\ chan = [c \in Chans |-> InitChan(c)]
    /\ pendAtClose = [c \in Chans |-> {}]
    /\ InitListener
    /\ build = CheckingBuild

\* The listener in either build.
ListenerInit ==
    /\ chan = [c \in Chans |-> InitChan(c)]
    /\ pendAtClose = [c \in Chans |-> {}]
    /\ InitListener
    /\ build \in Builds

Next ==
    \/ \E c \in Chans : InitFromLoop(c)
    \/ \E c \in Chans : Send(c)
    \/ \E c \in Chans : Recv(c)
    \/ \E c \in Chans : Close(c)
    \/ \E c \in Chans : ReplyReadDone(c)
    \/ \E c \in Chans : ReplyReadFail(c)
    \/ \E c \in Chans : AckReadDone(c)
    \/ \E c \in Chans : AckReadFail(c)
    \/ \E c \in Chans : WriteFail(c)
    \/ ConnectionBreaks

Spec == Init /\ [][Next]_vars

\* Runs with no error and no close: submissions and successful completions.
HappyNext ==
    \/ \E c \in Chans : InitFromLoop(c)
    \/ \E c \in Chans : Send(c)
    \/ \E c \in Chans : Recv(c)
    \/ \E c \in Chans : ReplyReadDone(c)
    \/ \E c \in Chans : AckReadDone(c)

\* The peer posts the recv of every descriptor it is handed, the transport
\* delivers every message written, and the loop runs every completion.
HappyFairness ==
    /\ WF_vars(\E c \in Chans : InitFromLoop(c))
    /\ WF_vars(\E c \in Chans : Recv(c))
    /\ WF_vars(\E c \in Chans : ReplyReadDone(c))
    /\ WF_vars(\E c \in Chans : AckReadDone(c))

HappySpec == Init /\ [][HappyNext]_vars /\ HappyFairness

\* The channel together with the device that runs the enqueued copies, on
\* connections that stay up until an endpoint closes.
DeviceNext ==
    \/ \E c \in Chans : InitFromLoop(c)
    \/ \E c \in Chans : Send(c)
    \/ \E c \in Chans : RecvOnDevice(c)
    \/ \E c \in Chans : Close(c)
    \/ \E c \in Chans : ReplyReadDone(c)
    \/ \E c \in Chans : AckReadDone(c)
    \/ \E c \in Chans : StreamRuns(c)

DeviceSpec == Init /\ [][DeviceNext]_vars

ListenerNext ==
    \/ Accept
    \/ ListenerClose
    \/ BackendSetError
    \/ BackendCompletes

ListenerSpec == ListenerInit /\ [][ListenerNext]_vars

\* The loop runs every task it holds, and the transport completes every read
\* issued on a connection that is closed or broken.
ReadFails == \E c \in Chans : ReplyReadFail(c) \/ AckReadFail(c)

Fairness == WF_vars(ReadFails)

FairSpec == Init /\ [][Next]_vars /\ Fairness

(***************************************************************************)
(* Properties                                                              *)
(***************************************************************************)

\* Number of events ev of op n in a log.
Count(log, ev, n) ==
    Cardinality({i \in DOMAIN log : log[i].ev = ev /\ log[i].seq = n})

\* The errors the callback of op n was invoked with.
CallbackErrors(log, n) ==
    {log[i].err : i \in {j \in DOMAIN log : log[j].ev = "callback" /\ log[j].seq = n}}

\* The callback invocations of a log, in the order they happened.
Callbacks(log) == SelectSeq(log, LAMBDA e : e.ev = "callback")

IncreasingSeq(events) ==
    \A i, j \in DOMAIN events : i < j => events[i].seq < events[j].seq

\* Op n of a log finished, and its callback was invoked, exactly once.
DoneOnce(log, n) == Count(log, "callback", n) = 1 /\ Count(log, "finished", n) = 1

OnceInLog(log, submitted) ==
    \A n \in 0..(submitted - 1) :
        /\ Count(log, "callback", n) <= 1
        /\ Count(log, "finished", n) <= 1
        /\ Count(log, "finished", n) = 1 => Count(log, "callback", n) = 1

FinishedInQueue(ops, log) ==
    \A i \in DOMAIN ops : ops[i].state = FINISHED => DoneOnce(log, ops[i].sequenceNumber)

\* C1: for every send op and every recv op the user callback is invoked at
\* most once, the op enters FINISHED at most once, and an op that is FINISHED
\* has had its callback invoked exactly once.
C1_CallbackAtMostOnce ==
    \A c \in Chans :
        /\ OnceInLog(chan[c].sendLog, chan[c].nextSend)
        /\ OnceInLog(chan[c].recvLog, chan[c].nextRecv)
        /\ FinishedInQueue(chan[c].sendOps, chan[c].sendLog)
        /\ FinishedInQueue(chan[c].recvOps, chan[c].recvLog)

\* An endpoint with an error, one send that completed with success, one
\* send finished by the error and a recv that went through READING_ACK.
C1_Witness ==
    \E c \in Chans :
        /\ chan[c].error_ # Success
        /\ \E n \in 0..(chan[c].nextSend - 1) :
              DoneOnce(chan[c].sendLog, n) /\ CallbackErrors(chan[c].sendLog, n) = {Success}
        /\ \E n \in 0..(chan[c].nextSend - 1) :
              DoneOnce(chan[c].sendLog, n) /\ CallbackErrors(chan[c].sendLog, n) # {Success}
        /\ \E n \in 0..(chan[c].nextRecv - 1) :
              DoneOnce(chan[c].recvLog, n) /\ Count(chan[c].recvLog, "readAck", n) = 1

\* C2: within each direction of one endpoint, user callbacks are invoked in
\* strictly increasing sequence-number order, also when the error is set.
C2_CallbacksInOrder ==
    \A c \in Chans :
        /\ IncreasingSeq(Callbacks(chan[c].sendLog))
        /\ IncreasingSeq(Callbacks(chan[c].recvLog))

\* Every op submitted to endpoint c so far has finished and left its queue.
AllDone(c) ==
    /\ chan[c].sendOps = <<>>
    /\ chan[c].recvOps = <<>>
    /\ \A n \in 0..(chan[c].nextSend - 1) : DoneOnce(chan[c].sendLog, n)
    /\ \A n \in 0..(chan[c].nextRecv - 1) : DoneOnce(chan[c].recvLog, n)

\* C3: once an endpoint is closed (its error is set), every op submitted to
\* it eventually has its callback invoked and reaches FINISHED: none stays
\* in UNINITIALIZED, READING_REPLY or READING_ACK.
C3_ClosedChannelDrains ==
    \A c \in Chans : (chan[c].error_ # Success) ~> AllDone(c)

\* A closed endpoint that held a send in READING_REPLY and a recv in
\* READING_ACK when it was closed, and has drained.
C3_Witness ==
    \E c \in Chans :
        /\ chan[c].error_ = ChannelClosed
        /\ \E p, q \in pendAtClose[c] : p[1] = "send" /\ q[1] = "recv"
        /\ AllDone(c)

\* An op submitted while the error was set took UNINITIALIZED -> FINISHED in
\* its submission: its callback got the error, then it finished, with no I/O.
FinishedAtSubmission(log, error, io) ==
    \A i \in DOMAIN log :
        (log[i].ev = "submitted" /\ log[i].err # Success) =>
            /\ log[i].err = error
            /\ i + 2 <= Len(log)
            /\ log[i + 1] = Event("callback", log[i].seq, error, EmptyHandle)
            /\ log[i + 2] = Event("finished", log[i].seq, error, EmptyHandle)
            /\ DoneOnce(log, log[i].seq)
            /\ Count(log, io, log[i].seq) = 0

\* C4: once the error of an endpoint is set, every send or recv submitted
\* afterwards has its callback invoked with that error, by the transition
\* UNINITIALIZED -> FINISHED.
C4_SubmittedAfterError ==
    \A c \in Chans :
        /\ FinishedAtSubmission(chan[c].sendLog, chan[c].error_, "readReply")
        /\ FinishedAtSubmission(chan[c].recvLog, chan[c].error_, "copy")

\* An endpoint that got a send and a recv after its error was set.
C4_Witness ==
    \E c \in Chans :
        /\ \E i \in DOMAIN chan[c].sendLog :
              chan[c].sendLog[i].ev = "submitted" /\ chan[c].sendLog[i].err # Success
        /\ \E i \in DOMAIN chan[c].recvLog :
              chan[c].recvLog[i].ev = "submitted" /\ chan[c].recvLog[i].err # Success

logOf(c, direction) == IF direction = "send" THEN chan[c].sendLog ELSE chan[c].recvLog

\* C5 as claimed: every op that was in its queue and not FINISHED when
\* close() set the error has its callback fire with the close error.
C5_PendingGetCloseError ==
    \A c \in Chans : \A p \in pendAtClose[c] :
        Count(logOf(c, p[1]), "finished", p[2]) = 1 =>
            CallbackErrors(logOf(c, p[1]), p[2]) = {ChannelClosed}

\* What the callbacks of the ops pending at close() can have been given: the
\* close error for a send, success (already, once) for a recv in READING_ACK.
PendingCallbacks(c) ==
    \A p \in pendAtClose[c] :
        IF p[1] = "recv" /\ p[3] = READING_ACK
        THEN /\ Count(chan[c].recvLog, "callback", p[2]) = 1
             /\ CallbackErrors(chan[c].recvLog, p[2]) = {Success}
        ELSE CallbackErrors(logOf(c, p[1]), p[2]) \subseteq {ChannelClosed}

PendingFired(c) ==
    \A p \in pendAtClose[c] : DoneOnce(logOf(c, p[1]), p[2])

\* C5, amended: when close() sets the error, every unfinished send op (and
\* every op still UNINITIALIZED) has its callback fire with the close error;
\* a recv op in READING_ACK had its callback invoked with success when it
\* entered READING_ACK, and finishes without a second invocation.
C5_PendingAfterClose ==
    \A c \in Chans :
        /\ [](PendingCallbacks(c))
        /\ (pendAtClose[c] # {}) ~> PendingFired(c)

\* A closed endpoint whose pending send got the close error and whose
\* pending recv, in READING_ACK at close(), has finished.
C5_Witness ==
    \E c \in Chans :
        /\ \E p \in pendAtClose[c] :
              /\ p[1] = "send"
              /\ CallbackErrors(chan[c].sendLog, p[2]) = {ChannelClosed}
        /\ \E p \in pendAtClose[c] :
              /\ p[1] = "recv" /\ p[3] = READING_ACK
              /\ Count(chan[c].recvLog, "finished", p[2]) = 1

\* The start-event handle of the descriptor recv r of endpoint c was given.
descriptorOf(c, r) ==
    LET i == CHOOSE j \in DOMAIN chan[c].recvLog :
                 chan[c].recvLog[j].ev = "submitted" /\ chan[c].recvLog[j].seq = r
    IN chan[c].recvLog[i].handle

\* The sender's op a descriptor handle stands for.
sendOf(handle) == handle - 1

\* Recvs of endpoint c posted after the peer closed, with the descriptor of
\* a send the peer had submitted and not finished when it closed.
LateRecvs(c) ==
    {r \in chan[c].recvAfterPeerClose :
        <<"send", sendOf(descriptorOf(c, r)), READING_REPLY>> \in pendAtClose[Peer(c)]}

\* C6 as claimed: a send, then close() of the sender, then the matching
\* recv: the send's callback gets the close error and the recv's callback
\* gets an error, not success.
C6_LateRecvFails ==
    \A c \in Chans : \A r \in LateRecvs(c) :
        /\ CallbackErrors(chan[Peer(c)].sendLog, sendOf(descriptorOf(c, r)))
               \subseteq {ChannelClosed}
        /\ Success \notin CallbackErrors(chan[c].recvLog, r)

\* The error slot of endpoint c as recv r found it at submission.
errorAtSubmission(c, r) ==
    LET i == CHOOSE j \in DOMAIN chan[c].recvLog :
                 chan[c].recvLog[j].ev = "submitted" /\ chan[c].recvLog[j].seq = r
    IN chan[c].recvLog[i].err

\* C6, amended: the send's callback gets the close error; the recv posted
\* afterwards has its callback invoked once, during its submission, with
\* the receiver's own error slot: success while that slot is empty, the
\* receiver's error otherwise.
C6_LateRecvGetsOwnError ==
    \A c \in Chans : \A r \in LateRecvs(c) :
        /\ CallbackErrors(chan[Peer(c)].sendLog, sendOf(descriptorOf(c, r)))
               \subseteq {ChannelClosed}
        /\ Count(chan[c].recvLog, "callback", r) = 1
        /\ CallbackErrors(chan[c].recvLog, r) = {errorAtSubmission(c, r)}

\* The sender closed with its send unfinished and got the close error; the
\* recv posted afterwards with the descriptor completed with success.
C6_Witness ==
    \E c \in Chans : \E r \in LateRecvs(c) :
        /\ CallbackErrors(chan[Peer(c)].sendLog, sendOf(descriptorOf(c, r)))
               = {ChannelClosed}
        /\ CallbackErrors(chan[c].recvLog, r) = {Success}

\* The first non-success error of a sequence of errors, Success if none.
RECURSIVE firstError(_)
firstError(errors) ==
    IF errors = <<>> THEN Success
    ELSE IF Head(errors) # Success THEN Head(errors)
    ELSE firstError(Tail(errors))

\* The state of the listener, without the record of what was written.
listenerState == <<error_, nextConnectionBeingAccepted_, nextAcceptCallbackToCall_,
                   backendQueue, acceptLog, handedOver, handleErrorCalls,
                   dcheckFailed>>

\* C7: the listener's error slot holds the first non-success error written
\* to it; once set it is never changed and never returns to success.
C7_ErrorSlotSticky ==
    /\ [](error_ = firstError(written))
    /\ [][error_ # Success => error_' = error_]_vars

\* The slot holds the first error although another error was written later.
C7_Witness ==
    /\ error_ = ConnError
    /\ written = <<Success, ConnError, ListenerClosed>>

\* C8: handleErrorImpl runs at most once, at the first transition of the
\* error slot from success to error; a later close() changes no state and
\* invokes no callback.
C8_CloseIdempotent ==
    /\ [](handleErrorCalls <= 1)
    /\ [](handleErrorCalls = 1 <=> error_ # Success)
    /\ [][handleErrorCalls' # handleErrorCalls =>
             error_ = Success /\ error_' # Success]_vars
    /\ [][(error_ # Success /\ ListenerClose) => UNCHANGED listenerState]_vars

\* A closed listener: handleErrorImpl ran once and failed a pending accept.
C8_Witness ==
    /\ error_ = ListenerClosed
    /\ written = <<ListenerClosed, ListenerClosed, ListenerClosed>>
    /\ handleErrorCalls = 1
    /\ \E i \in DOMAIN acceptLog :
          acceptLog[i].by = "backend" /\ acceptLog[i].error = ListenerClosed

acceptCalls(n) == {i \in DOMAIN acceptLog : acceptLog[i].seq = n}

\* C9: an accept processed while the error slot is set has its callback
\* invoked exactly once, by acceptFromLoop, with that error and a null
\* connection, and is not handed to acceptImplFromLoop; an accept processed
\* while the slot is empty is handed to acceptImplFromLoop and its callback
\* is not invoked by acceptFromLoop.
\* Holds with NDEBUG; in a checking build the wrapper of an accept processed
\* under error throws before it calls fn when an earlier accept is pending.
C9_AcceptUnderError ==
    \A n \in 0..(nextConnectionBeingAccepted_ - 1) :
        IF acceptedUnder[n + 1] # Success
        THEN /\ n \notin handedOver
             /\ Cardinality(acceptCalls(n)) = 1
             /\ \A i \in acceptCalls(n) :
                   /\ acceptLog[i].by = "boilerplate"
                   /\ acceptLog[i].error = acceptedUnder[n + 1]
                   /\ acceptLog[i].connection = FALSE
        ELSE /\ n \in handedOver
             /\ \A i \in acceptCalls(n) : acceptLog[i].by = "backend"
             /\ Cardinality(acceptCalls(n)) <= 1
             /\ (\E i \in DOMAIN backendQueue : backendQueue[i] = n)
                    <=> acceptCalls(n) = {}

\* C10: accepts get the sequence numbers 0, 1, 2, ... in processing order,
\* and at every invocation of a wrapped accept callback the assertion
\* sequenceNumber == nextAcceptCallbackToCall_ holds, for a backend that
\* invokes the callbacks it holds in the order it got them.
C10_AcceptCallbacksInOrder ==
    /\ Len(acceptedUnder) = nextConnectionBeingAccepted_
    /\ ~dcheckFailed
    /\ \A i \in DOMAIN acceptLog : acceptLog[i].seq = i - 1

\* The bytes submitted by the send that recv r of endpoint c matches:
\* descriptors are consumed in the order the sends produced them.
sentBytes(c, r) == payload(Peer(c), r)

SucceededRecvs(c) ==
    {r \in 0..(chan[c].nextRecv - 1) : Success \in CallbackErrors(chan[c].recvLog, r)}

\* C11: round trip.  At the moment the recv callback is invoked with
\* success, the destination buffer of the recv equals the bytes B that the
\* matching send submitted.
C11_RoundTripAtCallback ==
    \A c \in Chans : \A r \in SucceededRecvs(c) :
        chan[c].dstAtCallback[r + 1] = sentBytes(c, r)

\* The events ev of a log, in the order they happened.
IssuesOf(log, ev) == SelectSeq(log, LAMBDA e : e.ev = ev)

\* C12: on each control stream the I/O is issued in sequence-number order:
\* the sender's reply reads and its ack writes, and the receiver's reply
\* writes and its ack reads, are each issued for an earlier op before a
\* later one.
C12_ControlIOInOrder ==
    \A c \in Chans :
        /\ IncreasingSeq(IssuesOf(chan[c].sendLog, "readReply"))
        /\ IncreasingSeq(IssuesOf(chan[c].sendLog, "writeAck"))
        /\ IncreasingSeq(IssuesOf(chan[c].recvLog, "writeReply"))
        /\ IncreasingSeq(IssuesOf(chan[c].recvLog, "readAck"))

\* Two sends were submitted before any recv; both ops of each direction
\* issued all their control I/O.
C12_Witness ==
    /\ Len(IssuesOf(chan[1].sendLog, "readReply")) = 2
    /\ Len(IssuesOf(chan[1].sendLog, "writeAck")) = 2
    /\ Len(IssuesOf(chan[2].recvLog, "writeReply")) = 2
    /\ Len(IssuesOf(chan[2].recvLog, "readAck")) = 2
    /\ \E i, j \in DOMAIN chan[1].sendLog :
          /\ i < j
          /\ chan[1].sendLog[i].ev = "readReply" /\ chan[1].sendLog[i].seq = 1
          /\ chan[1].sendLog[j].ev = "writeAck" /\ chan[1].sendLog[j].seq = 0

SucceededOnce(log, n) == DoneOnce(log, n) /\ CallbackErrors(log, n) = {Success}

\* Every send submitted so far and its matching recv finished with success,
\* and nothing is left in a queue.
Quiescent ==
    \A c \in Chans :
        /\ chan[c].sendOps = <<>> /\ chan[c].recvOps = <<>>
        /\ chan[c].descOut = <<>>
        /\ chan[Peer(c)].nextRecv = chan[c].nextSend
        /\ \A n \in 0..(chan[c].nextSend - 1) : SucceededOnce(chan[c].sendLog, n)
        /\ \A n \in 0..(chan[c].nextRecv - 1) : SucceededOnce(chan[c].recvLog, n)

\* C13: in a run with no error and no close, under a fair loop and a
\* reliable ordered transport, every send and its matching recv eventually
\* reach FINISHED with their callbacks invoked with success, and the queues
\* end empty, whatever the interleaving of submissions and completions.
C13_NoDeadlock == []<>Quiescent

\* Every send of the run was submitted and everything completed.
C13_Witness ==
    /\ Quiescent
    /\ chan[1].nextSend = MaxSends
    /\ chan[2].nextSend = 1
    /\ Len(IssuesOf(chan[1].sendLog, "readReply")) = MaxSends

DescriptorEvents == {"descriptor", "descriptorFromFinished", "descriptorFromErased"}
TransitionEvents == {"readReply", "waitOnStopEvent", "callback", "writeAck", "finished"}

\* C14: on send submission the descriptor is delivered through the
\* descriptor callback first and the new op is advanced only then: no
\* transition of the op (readReply issued, send callback invoked) happens
\* before its descriptor callback.
C14_DescriptorBeforeAdvance ==
    \A c \in Chans : \A i, j \in DOMAIN chan[c].sendLog :
        (/\ chan[c].sendLog[i].ev \in DescriptorEvents
         /\ chan[c].sendLog[j].ev \in TransitionEvents
         /\ chan[c].sendLog[j].seq = chan[c].sendLog[i].seq) => i < j

\* The recv op of the peer whose stop event a Reply handle names.
recvOf(handle) == handle - 1

\* Positions of the waitOnStopEvent events a step adds to the send log of c.
NewWaits(c) ==
    {i \in DOMAIN chan'[c].sendLog :
        i > Len(chan[c].sendLog) /\ chan'[c].sendLog[i].ev = "waitOnStopEvent"}

\* C15: a recv op does not reach FINISHED, and so does not release its stop
\* event, while the peer's matching send can still execute waitOnStopEvent
\* on that event: whenever the sender executes waitOnStopEvent, the recv op
\* that recorded the event has not finished, also when the receiver was
\* closed or failed after it wrote the Reply.
C15_StopEventAlive ==
    [][\A c \in Chans : \A i \in NewWaits(c) :
          Count(chan[Peer(c)].recvLog, "finished",
                recvOf(chan'[c].sendLog[i].handle)) = 0]_vars

\* C16 as claimed: when the advance-all calls of handleErrorImpl return,
\* every op in both queues is FINISHED with its callback invoked.
C16_ErrorCollapsesAll ==
    \A c \in Chans : chan[c].leftByHandleError = {}

\* The ops with a control-stream read outstanding.
AwaitingRead(reads) ==
    {<<"send", n, READING_REPLY>> : n \in reads.reply}
    \cup {<<"recv", n, READING_ACK>> : n \in reads.ack}

\* C16, amended: when the advance-all calls of handleErrorImpl return, the
\* ops left unfinished are exactly those whose reply read or ack read is
\* outstanding: they stay in READING_REPLY or READING_ACK, none is
\* UNINITIALIZED.  Such a send has its callback invoked with the error only
\* when its read completes; such a recv had its callback invoked with
\* success on entering READING_ACK.
C16_ErrorLeavesPendingReads ==
    \A c \in Chans :
        /\ chan[c].leftByHandleError = AwaitingRead(chan[c].readsAtError)
        /\ \A p \in chan[c].leftByHandleError :
              IF p[1] = "send"
              THEN /\ CallbackErrors(chan[c].sendLog, p[2]) \subseteq {chan[c].error_}
                   /\ (Count(chan[c].sendLog, "callback", p[2]) = 1
                          <=> p[2] \notin outstanding(chan[c].replyReads))
              ELSE CallbackErrors(chan[c].recvLog, p[2]) = {Success}

\* handleErrorImpl left a send in READING_REPLY and a recv in READING_ACK;
\* the send's read has completed since, the recv's read is still outstanding.
C16_Witness ==
    \E c \in Chans :
        /\ chan[c].handleErrorCalls = 1
        /\ \E p, q \in chan[c].leftByHandleError :
              /\ p[1] = "send" /\ Count(chan[c].sendLog, "finished", p[2]) = 1
              /\ q[1] = "recv" /\ Count(chan[c].recvLog, "finished", q[2]) = 0

\* Number of events ev of a log that carry error err.
CountWith(log, ev, err) ==
    Cardinality({i \in DOMAIN log : log[i].ev = ev /\ log[i].err = err})

\* Event a of op n is in the log, and before event b of op n.
Before(log, n, a, b) ==
    \E i, j \in DOMAIN log :
        /\ i < j
        /\ log[i].ev = a /\ log[i].seq = n
        /\ log[j].ev = b /\ log[j].seq = n

\* C17: the sender issues exactly one Ack write for each send op that
\* finishes without error, after waitOnStopEvent and after the op's
\* callback, and none for a send op that finishes under error; the number
\* of Acks written is at most the number of Replies read with success and
\* equals the number of send callbacks invoked with success.
C17_AckAccounting ==
    \A c \in Chans :
        /\ \A n \in 0..(chan[c].nextSend - 1) :
              /\ Count(chan[c].sendLog, "writeAck", n) =
                     IF Success \in CallbackErrors(chan[c].sendLog, n) THEN 1 ELSE 0
              /\ Count(chan[c].sendLog, "writeAck", n) = 1 =>
                     /\ Before(chan[c].sendLog, n, "waitOnStopEvent", "callback")
                     /\ Before(chan[c].sendLog, n, "callback", "writeAck")
        /\ Len(IssuesOf(chan[c].sendLog, "writeAck"))
               <= CountWith(chan[c].sendLog, "replyRead", Success)
        /\ Len(IssuesOf(chan[c].sendLog, "writeAck"))
               = CountWith(chan[c].sendLog, "callback", Success)

\* A sender that acknowledged one send and finished another under error.
C17_Witness ==
    \E c \in Chans : \E n, m \in 0..(chan[c].nextSend - 1) :
        /\ Count(chan[c].sendLog, "writeAck", n) = 1
        /\ Count(chan[c].sendLog, "finished", m) = 1
        /\ Count(chan[c].sendLog, "replyRead", m) = 1
        /\ Count(chan[c].sendLog, "writeAck", m) = 0

\* The callback reference of every op of a queue is empty exactly when the
\* callback was invoked, and no callback was invoked twice.
ReleasedIffInvoked(ops, log, submitted) ==
    /\ \A i \in DOMAIN ops :
          ops[i].callback = (Count(log, "callback", ops[i].sequenceNumber) = 0)
    /\ \A n \in 0..(submitted - 1) : Count(log, "callback", n) <= 1

\* C18: for every send and recv op, the stored callback reference is empty
\* if and only if the callback has been invoked: it is released in the step
\* that invokes it and is neither invoked nor set again afterwards.
C18_CallbackReleased ==
    \A c \in Chans :
        /\ ReleasedIffInvoked(chan[c].sendOps, chan[c].sendLog, chan[c].nextSend)
        /\ ReleasedIffInvoked(chan[c].recvOps, chan[c].recvLog, chan[c].nextRecv)

\* An endpoint holding a recv op whose callback was invoked and released
\* and a send op whose callback is still stored, in both kinds of run:
\* the send waiting for its Reply, and, after an error, a later send
\* finished and released behind it.
C18_Witness ==
    \E c \in Chans :
        /\ \E i \in DOMAIN chan[c].recvOps :
              ~chan[c].recvOps[i].callback /\ chan[c].recvOps[i].state = READING_ACK
        /\ \E i, j \in DOMAIN chan[c].sendOps :
              /\ chan[c].sendOps[i].callback /\ chan[c].sendOps[i].state = READING_REPLY
              /\ ~chan[c].sendOps[j].callback /\ chan[c].sendOps[j].state = FINISHED

ControlIO == {"readReply", "writeAck", "writeReply", "readAck"}

\* Every control-stream read or write of a log was issued with no error set.
IssuedWithoutError(log) ==
    \A i \in DOMAIN log : log[i].ev \in ControlIO => log[i].err = Success

\* The log grows by control-stream I/O in this step.
IssuesIO(before, after) ==
    \E i \in DOMAIN after : i > Len(before) /\ after[i].ev \in ControlIO

\* C19: once the error slot of a channel is set, no read or write is issued
\* on its reply or ack stream by any op, so none is issued on a stream that
\* handleErrorImpl has closed.
C19_NoIOAfterError ==
    /\ [](\A c \in Chans :
            IssuedWithoutError(chan[c].sendLog) /\ IssuedWithoutError(chan[c].recvLog))
    /\ [][\A c \in Chans : chan[c].error_ # Success =>
              /\ ~IssuesIO(chan[c].sendLog, chan'[c].sendLog)
              /\ ~IssuesIO(chan[c].recvLog, chan'[c].recvLog)]_vars

\* An endpoint that issued a reply read, then got its error, and then had
\* a send and a recv submitted and the pending send finished.
C19_Witness ==
    \E c \in Chans :
        /\ chan[c].error_ # Success
        /\ IssuesOf(chan[c].sendLog, "readReply") # <<>>
        /\ CountWith(chan[c].sendLog, "submitted", chan[c].error_) > 0
        /\ CountWith(chan[c].recvLog, "submitted", chan[c].error_) > 0
        /\ CountWith(chan[c].sendLog, "replyRead", chan[c].error_) > 0

\* C20: waitOnStopEvent is executed for a send op only on a stop-event
\* handle stored from a Reply read with success, never on the initial empty
\* handle, although a reply read that completes under error sets
\* doneReadingReply without storing a handle.
C20_WaitOnStoredHandle ==
    \A c \in Chans : \A i \in DOMAIN chan[c].sendLog :
        chan[c].sendLog[i].ev = "waitOnStopEvent" =>
            /\ chan[c].sendLog[i].handle # EmptyHandle
            /\ \E j \in 1..(i - 1) :
                  chan[c].sendLog[j] = Event("replyRead", chan[c].sendLog[i].seq,
                                             Success, chan[c].sendLog[i].handle)

\* A sender that waited on the stop event of one send, and whose other send
\* had its reply read complete under error and finished without waiting.
C20_Witness ==
    \E c \in Chans : \E n, m \in 0..(chan[c].nextSend - 1) :
        /\ Count(chan[c].sendLog, "waitOnStopEvent", n) = 1
        /\ Count(chan[c].sendLog, "replyRead", m) = 1
        /\ CountWith(chan[c].sendLog, "replyRead", chan[c].error_) = 1
        /\ chan[c].error_ # Success
        /\ Count(chan[c].sendLog, "finished", m) = 1
        /\ Count(chan[c].sendLog, "waitOnStopEvent", m) = 0

\* The stop-event handle recv op r puts in its Reply.
stopEvOf(r) == RecvOperation(r, makeDescriptor(r), [stream |-> 1, length |-> Length]).stopEv

\* The recv of the peer of c that consumed the descriptor of send n of c.
ConsumersOf(c, n) ==
    {r \in 0..(chan[Peer(c)].nextRecv - 1) :
        descriptorOf(Peer(c), r) = makeDescriptor(n).startEvHandle}

\* C21: when the peer posts its recvs in the order of the sends whose
\* descriptors they consume, in an error-free run the Reply consumed by
\* send op n is the one written by the recv op that consumed the descriptor
\* of send op n: the handle the send stores, and waits on, is the stop
\* event of that recv op.
C21_ReplyMatchesRecv ==
    \A c \in Chans : \A i \in DOMAIN chan[c].sendLog :
        chan[c].sendLog[i].ev \in {"replyRead", "waitOnStopEvent"} =>
            \E r \in ConsumersOf(c, chan[c].sendLog[i].seq) :
                /\ chan[c].sendLog[i].handle = stopEvOf(r)
                /\ Count(chan[Peer(c)].recvLog, "writeReply", r) = 1

\* Both sends of endpoint 1 were submitted before a Reply was read, and
\* both have read their Reply and waited on the handle it carried.
C21_Witness ==
    /\ Len(IssuesOf(chan[1].sendLog, "waitOnStopEvent")) = MaxSends
    /\ \E i, j \in DOMAIN chan[1].sendLog :
          /\ i < j
          /\ chan[1].sendLog[i].ev = "readReply" /\ chan[1].sendLog[i].seq = 1
          /\ chan[1].sendLog[j].ev = "replyRead" /\ chan[1].sendLog[j].seq = 0

\* C22: whenever sendImplFromLoop computes the descriptor from the op
\* record it just enqueued, that record is still in the send queue and not
\* FINISHED, in every state in which sendImplFromLoop can run, also with
\* the channel error already set.
C22_DescriptorFromLiveRecord ==
    \A c \in Chans : \A i \in DOMAIN chan[c].sendLog :
        chan[c].sendLog[i].ev \in DescriptorEvents =>
            chan[c].sendLog[i].ev = "descriptor"

\* Running the transition table on op i of a queue, against the state of
\* its predecessor, would change the state of the op.
SendCanProgress(cs, i) == advanceOneSend(cs, cs.sendOps[i].sequenceNumber).advanced
RecvCanProgress(cs, i) == advanceOneRecv(cs, cs.recvOps[i].sequenceNumber).advanced

\* C23: after every loop task (a submission, an I/O completion that
\* advances one op, or handleErrorImpl with its advance-all) no op of
\* either queue has an enabled transition of its table: advancing the op
\* named by the event, with the cascade of the engine, leaves no
\* neighbouring op that could have progressed.
C23_EngineQuiescent ==
    \A c \in Chans :
        /\ \A i \in DOMAIN chan[c].sendOps : ~SendCanProgress(chan[c], i)
        /\ \A i \in DOMAIN chan[c].recvOps : ~RecvCanProgress(chan[c], i)

\* Queues with neighbouring ops after tasks of each kind: a sender in
\* error holding a send in READING_REPLY and a finished send behind it,
\* and its peer holding two recvs in READING_ACK.
C23_Witness ==
    \E c \in Chans :
        /\ chan[c].handleErrorCalls = 1
        /\ Len(chan[c].sendOps) = 2
        /\ chan[c].sendOps[1].state = READING_REPLY
        /\ chan[c].sendOps[2].state = FINISHED
        /\ Len(chan[Peer(c)].recvOps) = 2
        /\ \A i \in DOMAIN chan[Peer(c)].recvOps :
              chan[Peer(c)].recvOps[i].state = READING_ACK

====
